---- MODULE Spec2Model ----
(***************************************************************************)
(* Model of SilverBreakoutAnalyzer (silver_breakout_analysis.py).          *)
(*                                                                         *)
(* Positions are 1-based here (pandas positions are 0-based), so the       *)
(* code's "idx < len(self.data)" reads "idx <= Len(bars)".                 *)
(* Prices and thresholds are integers and every percentage is kept as an   *)
(* exact fraction [num, den] with den > 0; floating-point rounding is not  *)
(* modelled.  A nullable value is a sequence of length 0 (None / NaN) or 1.*)
(***************************************************************************)
EXTENDS Integers, Sequences, FiniteSets, TLC

\* ------------------------------------------------------------------ bounds
MaxLen == 4
MaxPrice == 2
MaxHold == 2
MaxFuture == 2
MaxThresholds == 2

\* ------------------------------------------------------- program constants
SweepHoldDays == 2
SweepFutureDays == 126
MinYearlyBreakouts == 2
FirstYear == 2000
DefaultSymbol == "SI=F"
alt_symbols == <<"SLV", "XAGUSD=X">>

Symbols == {DefaultSymbol} \cup {alt_symbols[k] : k \in 1..Len(alt_symbols)}

\* ------------------------------------------------------------- input sets
Prices == 1..MaxPrice
\* a daily bar: the day's low never exceeds its close
Bars == {b \in [Low : Prices, Close : Prices] : b.Low <= b.Close}
NonEmptySeries == UNION {[1..n -> Bars] : n \in 1..MaxLen}
Thresholds == {0, 100}
HoldDays == 0..MaxHold
FutureDays == (0..MaxFuture) \cup {SweepFutureDays}
ThresholdLists == UNION {[1..n -> Thresholds] : n \in 0..MaxThresholds}
\* which symbols the provider resolves, and how the analyzer is constructed
Availabilities == {{}, {DefaultSymbol}, {alt_symbols[2]}}

\* ----------------------------------------------------------------- values
None == <<>>
Some(x) == <<x>>
IsSome(o) == Len(o) = 1
Get(o) == o[1]

Frac(n, d) == [num |-> n, den |-> d]
Zero == Frac(0, 1)
FracAdd(a, b) == Frac(a.num * b.den + b.num * a.den, a.den * b.den)

VARIABLES
  provider,    \* what ticker.history returns for each symbol (fixed)
  symbol,      \* self.symbol
  data,        \* self.data: None, or Some(sequence of bars), possibly empty
  dailyReturn, \* the Daily_Return column of self.data: None until computed
  breakouts,   \* self.breakouts: None, or Some(sequence of events)
  ret          \* the outcome of the last call

vars == <<provider, symbol, data, dailyReturn, breakouts, ret>>

\* ------------------------------------------------------------- fetch_data
RECURSIVE TryAlternatives_NoBreak(_, _, _)
\* variant: the loop goes on after an alternative returned data
TryAlternatives_NoBreak(p, st, k) ==
  IF k > Len(alt_symbols) THEN st
  ELSE LET d == p[alt_symbols[k]] IN
       TryAlternatives_NoBreak(p,
         [data |-> d,
          symbol |-> IF d # <<>> THEN alt_symbols[k] ELSE st.symbol,
          queried |-> Append(st.queried, alt_symbols[k])], k + 1)

RECURSIVE TryAlternatives(_, _, _)
\* Result of fetch_data's loop over alt_symbols from index k on, given the
\* provider p and the current (empty) self.data / self.symbol in st;
\* queried lists the symbols asked of the provider so far.
TryAlternatives(p, st, k) ==
  IF k > Len(alt_symbols) THEN st
  ELSE LET d == p[alt_symbols[k]] IN
       IF d # <<>> THEN [data |-> d, symbol |-> alt_symbols[k],
                         queried |-> Append(st.queried, alt_symbols[k])]
       ELSE TryAlternatives(p, [data |-> d, symbol |-> st.symbol,
                                queried |-> Append(st.queried, alt_symbols[k])],
                            k + 1)

\* fetch_data: the state it leaves and whether it raised
FetchData(p, sym) ==
  LET d0 == p[sym]
      first == [data |-> d0, symbol |-> sym, queried |-> <<sym>>]
      Result(st) ==
        [data |-> st.data, symbol |-> st.symbol, queried |-> st.queried,
         error |-> IF st.data = <<>> THEN "ValueError" ELSE ""]
  IN Result(IF d0 = <<>> THEN TryAlternatives(p, first, 1) ELSE first)

\* ----------------------------------------------------- identify_breakouts
\* variant: the missing first return filled with 0 (fillna(0))
PctChange_FirstFilled(bars) ==
  [i \in 1..Len(bars) |->
     IF i = 1 THEN Some(Zero)
     ELSE Some(Frac((bars[i].Close - bars[i-1].Close) * 100, bars[i-1].Close))]

\* self.data['Close'].pct_change() * 100 : NaN for the first bar
PctChange(bars) ==
  [i \in 1..Len(bars) |->
     IF i = 1 THEN None
     ELSE Some(Frac((bars[i].Close - bars[i-1].Close) * 100, bars[i-1].Close))]

\* self.data['Daily_Return'] >= threshold_pct ; a comparison with NaN is False
MeetsThreshold(r, threshold_pct) ==
  IsSome(r) /\ Get(r).num >= threshold_pct * Get(r).den

\* variant: future_idx < len(self.data) - 1
HasFutureData_OffByOne(bars, pos, future_days) == pos + future_days < Len(bars)

\* has_future_data = future_idx < len(self.data)
HasFutureData(bars, pos, future_days) == pos + future_days <= Len(bars)

RECURSIVE HoldsAbove_PastEnd(_, _, _, _)
\* variant: a hold day past the end of the series ends the check without
\* rejecting the candidate
HoldsAbove_PastEnd(bars, pos, i, hold_days) ==
  IF i > hold_days THEN TRUE
  ELSE IF pos + i > Len(bars) THEN TRUE
  ELSE IF bars[pos + i].Close < bars[pos].Low THEN FALSE
  ELSE HoldsAbove_PastEnd(bars, pos, i + 1, hold_days)

RECURSIVE HoldsAbove_ExtraDay(_, _, _, _)
\* variant: range(1, hold_days + 2), one hold day too many
HoldsAbove_ExtraDay(bars, pos, i, hold_days) ==
  IF i > hold_days + 1 THEN TRUE
  ELSE IF pos + i > Len(bars) THEN FALSE
  ELSE IF bars[pos + i].Close < bars[pos].Low THEN FALSE
  ELSE HoldsAbove_ExtraDay(bars, pos, i + 1, hold_days)

RECURSIVE HoldsAbove(_, _, _, _)
\* the hold loop from iteration i on: False as soon as a bar is missing or
\* closes below the breakout price, True when the range is exhausted
HoldsAbove(bars, pos, i, hold_days) ==
  IF i > hold_days THEN TRUE
  ELSE IF pos + i > Len(bars) THEN FALSE
  ELSE IF bars[pos + i].Close < bars[pos].Low THEN FALSE
  ELSE HoldsAbove(bars, pos, i + 1, hold_days)

RECURSIVE HoldPeriodData(_, _, _, _)
\* (date, close) of the breakout day and of the hold days present
HoldPeriodData(bars, pos, i, hold_days) ==
  IF i > hold_days THEN <<>>
  ELSE (IF pos + i <= Len(bars)
        THEN <<[date |-> pos + i, price |-> bars[pos + i].Close]>>
        ELSE <<>>) \o HoldPeriodData(bars, pos, i + 1, hold_days)

\* variant: future_price >= breakout_price
IsWinner_OrEqual(future_price, breakout_price) == future_price >= breakout_price

\* is_winner = future_price > breakout_price
IsWinner(future_price, breakout_price) == future_price > breakout_price

\* variant: a pending event gets zeros instead of unset fields
Outcome_PendingZeros(bars, pos, future_days) ==
  LET breakout_price == bars[pos].Low IN
  IF HasFutureData(bars, pos, future_days)
  THEN LET future_price == bars[pos + future_days].Close IN
       [future_price  |-> Some(future_price),
        future_return |-> Some(Frac((future_price - breakout_price) * 100,
                                    breakout_price)),
        is_winner     |-> Some(IsWinner(future_price, breakout_price)),
        status        |-> "completed"]
  ELSE [future_price |-> None, future_return |-> Some(Zero),
        is_winner |-> Some(FALSE), status |-> "pending"]

\* the outcome fields of a hold-confirmed candidate
Outcome(bars, pos, future_days) ==
  LET breakout_price == bars[pos].Low IN
  IF HasFutureData(bars, pos, future_days)
  THEN LET future_price == bars[pos + future_days].Close IN
       [future_price  |-> Some(future_price),
        future_return |-> Some(Frac((future_price - breakout_price) * 100,
                                    breakout_price)),
        is_winner     |-> Some(IsWinner(future_price, breakout_price)),
        status        |-> "completed"]
  ELSE [future_price |-> None, future_return |-> None, is_winner |-> None,
        status |-> "pending"]

\* the dict appended to breakout_results for the candidate at pos
Event(bars, dr, pos, hold_days, future_days) ==
  LET o == Outcome(bars, pos, future_days) IN
  [breakout_date    |-> pos,
   breakout_price   |-> bars[pos].Low,
   breakout_return  |-> dr[pos],
   future_price     |-> o.future_price,
   future_return    |-> o.future_return,
   is_winner        |-> o.is_winner,
   status           |-> o.status,
   hold_period_data |-> HoldPeriodData(bars, pos, 0, hold_days)]

RECURSIVE BreakoutResults(_, _, _, _, _, _)
\* the loop over breakout_candidates.iterrows(), from position pos on
BreakoutResults(bars, dr, pos, threshold_pct, hold_days, future_days) ==
  IF pos > Len(bars) THEN <<>>
  ELSE (IF /\ MeetsThreshold(dr[pos], threshold_pct)
           /\ HoldsAbove(bars, pos, 1, hold_days)
        THEN <<Event(bars, dr, pos, hold_days, future_days)>>
        ELSE <<>>)
       \o BreakoutResults(bars, dr, pos + 1, threshold_pct, hold_days, future_days)

\* variant: the results are appended to the stored set
StoreBreakouts_Appending(previous, breakout_results) ==
  IF previous = None THEN Some(breakout_results)
  ELSE Some(Get(previous) \o breakout_results)

\* variant: the results are stored only while no set is stored yet
StoreBreakouts_KeepFirst(previous, breakout_results) ==
  IF previous = None THEN Some(breakout_results) ELSE previous

\* self.breakouts = pd.DataFrame(breakout_results)
StoreBreakouts(previous, breakout_results) == Some(breakout_results)

Completed(events) == SelectSeq(events, LAMBDA e : e.status = "completed")
Pending(events) == SelectSeq(events, LAMBDA e : e.status = "pending")

RECURSIVE CountWins(_)
\* column['is_winner'].sum(): None counts as nothing
CountWins(events) ==
  IF events = <<>> THEN 0
  ELSE (IF Head(events).is_winner = Some(TRUE) THEN 1 ELSE 0) + CountWins(Tail(events))

RECURSIVE SumFrac(_)
SumFrac(fs) == IF fs = <<>> THEN Zero ELSE FracAdd(Head(fs), SumFrac(Tail(fs)))

\* column['future_return'].mean(): skips the unset values, NaN if none is set
MeanFutureReturn(events) ==
  LET present == SelectSeq(events, LAMBDA e : IsSome(e.future_return))
      values == [k \in 1..Len(present) |-> Get(present[k].future_return)]
      total == SumFrac(values)
  IN IF present = <<>> THEN None
     ELSE Some(Frac(total.num, total.den * Len(present)))

\* the statistics identify_breakouts prints ("completed only"): None when
\* the block is skipped
Summary(events) ==
  LET completed_breakouts == Completed(events) IN
  IF Len(events) > 0 /\ Len(completed_breakouts) > 0
  THEN Some([completed |-> Len(completed_breakouts),
             wins |-> CountWins(completed_breakouts),
             win_rate |-> Frac(CountWins(completed_breakouts) * 100,
                               Len(completed_breakouts)),
             avg_future_return |-> MeanFutureReturn(completed_breakouts)])
  ELSE None

\* identify_breakouts on the analyzer state st = [symbol, data, dailyReturn,
\* breakouts].  bare: the empty frame a failed fetch left has no Close
\* column (what an empty provider frame holds is the provider's choice).
IdentifyBreakouts(p, st, threshold_pct, hold_days, future_days, bare) ==
  LET f == IF st.data = None THEN FetchData(p, st.symbol)
           ELSE [data |-> Get(st.data), symbol |-> st.symbol, error |-> ""]
  IN
  IF f.error # ""
  THEN [symbol |-> f.symbol, data |-> Some(f.data), dailyReturn |-> None,
        breakouts |-> st.breakouts, error |-> f.error, events |-> <<>>]
  ELSE IF f.data = <<>> /\ bare
  THEN [symbol |-> f.symbol, data |-> Some(f.data), dailyReturn |-> st.dailyReturn,
        breakouts |-> st.breakouts, error |-> "KeyError", events |-> <<>>]
  ELSE LET dr == PctChange(f.data)
           results == BreakoutResults(f.data, dr, 1, threshold_pct,
                                      hold_days, future_days)
           Returned(stored) ==
             [symbol |-> f.symbol, data |-> Some(f.data), dailyReturn |-> Some(dr),
              breakouts |-> stored, error |-> "", events |-> Get(stored)]
       IN Returned(StoreBreakouts(st.breakouts, results))

\* ----------------------------------------- generate_parameter_sweep_table
\* variant: the statistics are computed without the test for an empty result
SweepRow_NoEmptyTest(threshold, events) ==
  [threshold_pct   |-> threshold,
   total_breakouts |-> Len(events),
   wins            |-> CountWins(events),
   win_rate        |-> Frac(CountWins(events) * 100, Len(events)),
   avg_return      |-> MeanFutureReturn(events)]

\* the dict appended to results for one threshold (the median, min, max and
\* std columns are computed from the same column and are left out)
SweepRow(threshold, events) ==
  IF Len(events) > 0
  THEN [threshold_pct   |-> threshold,
        total_breakouts |-> Len(events),
        wins            |-> CountWins(events),
        win_rate        |-> Frac(CountWins(events) * 100, Len(events)),
        avg_return      |-> MeanFutureReturn(events)]
  ELSE [threshold_pct   |-> threshold,
        total_breakouts |-> 0,
        wins            |-> 0,
        win_rate        |-> Zero,
        avg_return      |-> Some(Zero)]

RECURSIVE SweepLoop(_, _, _, _, _, _)
\* the loop over thresholds from index k on; an exception of
\* identify_breakouts ends the loop and the call
SweepLoop(p, st, thresholds, k, results, bare) ==
  IF k > Len(thresholds)
  THEN [symbol |-> st.symbol, data |-> st.data, dailyReturn |-> st.dailyReturn,
        breakouts |-> st.breakouts, error |-> "", table |-> results]
  ELSE LET Iteration(r) ==
             IF r.error # ""
             THEN [symbol |-> r.symbol, data |-> r.data,
                   dailyReturn |-> r.dailyReturn, breakouts |-> r.breakouts,
                   error |-> r.error, table |-> <<>>]
             ELSE SweepLoop(p, [symbol |-> r.symbol, data |-> r.data,
                                dailyReturn |-> r.dailyReturn,
                                breakouts |-> r.breakouts],
                            thresholds, k + 1,
                            Append(results, SweepRow(thresholds[k], r.events)),
                            bare)
       IN Iteration(IdentifyBreakouts(p, st, thresholds[k], SweepHoldDays,
                                      SweepFutureDays, bare))

\* generate_parameter_sweep_table: fetch when self.data is None, then loop
GenerateParameterSweepTable(p, st, thresholds, bare) ==
  LET f == IF st.data = None THEN FetchData(p, st.symbol)
           ELSE [data |-> Get(st.data), symbol |-> st.symbol, error |-> ""]
  IN IF f.error # ""
     THEN [symbol |-> f.symbol, data |-> Some(f.data), dailyReturn |-> None,
           breakouts |-> st.breakouts, error |-> f.error, table |-> <<>>]
     ELSE SweepLoop(p, [symbol |-> f.symbol, data |-> Some(f.data),
                        dailyReturn |-> IF st.data = None THEN None ELSE st.dailyReturn,
                        breakouts |-> st.breakouts],
                    thresholds, 1, <<>>, bare)

\* ---------------------------------------------------------- plot_breakouts
\* the statistics of the chart title (without the median return); None when
\* the call returns early
PlotTitle(bk) ==
  IF bk = None \/ Len(Get(bk)) = 0 THEN None
  ELSE LET completed_breakouts == Completed(Get(bk))
           pending_count == Len(Pending(Get(bk)))
       IN IF Len(completed_breakouts) > 0
          THEN Some([win_rate |-> Frac(CountWins(completed_breakouts) * 100,
                                       Len(completed_breakouts)),
                     win_count |-> CountWins(completed_breakouts),
                     completed_count |-> Len(completed_breakouts),
                     pending_count |-> pending_count])
          ELSE Some([win_rate |-> Zero, win_count |-> 0, completed_count |-> 0,
                     pending_count |-> pending_count])

\* --------------------------------------------------- plot_win_rate_by_year
\* the calendar year of every bar, given the positions that open a new year
YearsOf(n, starts) ==
  [i \in 1..n |-> FirstYear + Cardinality({b \in starts : b <= i})]

\* (wins / total * 100).round(1): the nearest tenth, a tie to the even one
RoundedRate(wins, total) ==
  LET q == (wins * 1000) \div total
      r == (wins * 1000) % total
  IN Frac(IF 2 * r < total THEN q
          ELSE IF 2 * r > total THEN q + 1
          ELSE IF q % 2 = 0 THEN q ELSE q + 1, 10)

\* variant: more than MinYearlyBreakouts breakouts are required
KeepYear_Strict(total_breakouts) == total_breakouts > MinYearlyBreakouts

\* yearly_stats['total_breakouts'] >= 2
KeepYear(total_breakouts) == total_breakouts >= MinYearlyBreakouts

RECURSIVE YearRows(_, _, _, _)
\* the rows of yearly_stats for the years y..last, in ascending order:
\* count and sum of is_winner per group, the rounded rate, the filter
YearRows(completed, years, y, last) ==
  IF y > last THEN <<>>
  ELSE LET group == SelectSeq(completed, LAMBDA e : years[e.breakout_date] = y)
           counted == SelectSeq(group, LAMBDA e : IsSome(e.is_winner))
           Row(total, wins) ==
             IF total > 0 /\ KeepYear(total)
             THEN <<[year |-> y, total_breakouts |-> total, wins |-> wins,
                     win_rate |-> RoundedRate(wins, total)]>>
             ELSE <<>>
       IN Row(Len(counted), CountWins(group))
          \o YearRows(completed, years, y + 1, last)

\* the table behind the two bar charts; None when the call returns early
YearlyStats(bk, years) ==
  IF bk = None \/ Len(Get(bk)) = 0 THEN None
  ELSE IF Len(Completed(Get(bk))) = 0 THEN None
  ELSE Some(YearRows(Completed(Get(bk)), years, FirstYear, FirstYear + Len(years)))

\* ---------------------------------------------------------- export_results
\* the rows written to the CSV file (hold_period_data dropped); None when
\* there is nothing to export
ExportedRows(bk) ==
  IF bk # None /\ Len(Get(bk)) > 0
  THEN Some([k \in 1..Len(Get(bk)) |->
               [breakout_date   |-> Get(bk)[k].breakout_date,
                breakout_price  |-> Get(bk)[k].breakout_price,
                breakout_return |-> Get(bk)[k].breakout_return,
                future_price    |-> Get(bk)[k].future_price,
                future_return   |-> Get(bk)[k].future_return,
                is_winner       |-> Get(bk)[k].is_winner,
                status          |-> Get(bk)[k].status]])
  ELSE None

\* ------------------------------------------------------------------ state
NoCall ==
  [op |-> "init", threshold_pct |-> 0, hold_days |-> 0, future_days |-> 0,
   thresholds |-> <<>>, error |-> "", events |-> <<>>, summary |-> None,
   table |-> <<>>, title |-> None, replaced |-> FALSE,
   years |-> <<>>, yearly |-> None, exported |-> None,
   configured |-> "", queried |-> <<>>]

Analyzer == [symbol |-> symbol, data |-> data, dailyReturn |-> dailyReturn,
             breakouts |-> breakouts]

InitWith(series, availabilities) ==
  /\ \E avail \in availabilities :
       IF avail = {} THEN provider = [s \in Symbols |-> <<>>]
       ELSE \E bars \in series :
              provider = [s \in Symbols |-> IF s \in avail THEN bars ELSE <<>>]
  /\ symbol = DefaultSymbol
  /\ data = None
  /\ dailyReturn = None
  /\ breakouts = None
  /\ ret = NoCall

Init == InitWith(NonEmptySeries, Availabilities)

\* Whether the empty frame of a failed fetch lacks its columns is open only
\* when self.data is such a frame.
EmptyFrames(d) == IF d = Some(<<>>) THEN BOOLEAN ELSE {FALSE}

\* history: the call overwrote the different result set of an earlier run
Replaced(before, after) == before # None /\ before # after

\* analyzer.fetch_data()
FetchDataCall ==
  \E f \in {FetchData(provider, symbol)} :
  /\ data' = Some(f.data)
  /\ symbol' = f.symbol
  /\ dailyReturn' = None
  /\ ret' = [NoCall EXCEPT !.op = "fetch_data", !.error = f.error,
                           !.configured = symbol, !.queried = f.queried]
  /\ UNCHANGED <<provider, breakouts>>

\* analyzer.identify_breakouts(threshold_pct, hold_days, future_days)
IdentifyBreakoutsCall ==
  \E threshold_pct \in Thresholds, hold_days \in HoldDays,
     future_days \in FutureDays, bare \in EmptyFrames(data) :
    \E r \in {IdentifyBreakouts(provider, Analyzer, threshold_pct, hold_days,
                                 future_days, bare)} :
       /\ symbol' = r.symbol
       /\ data' = r.data
       /\ dailyReturn' = r.dailyReturn
       /\ breakouts' = r.breakouts
       /\ ret' = [NoCall EXCEPT !.op = "identify_breakouts",
                                !.threshold_pct = threshold_pct,
                                !.hold_days = hold_days,
                                !.future_days = future_days,
                                !.error = r.error,
                                !.events = r.events,
                                !.replaced = Replaced(breakouts, r.breakouts),
                                !.summary = IF r.error = "" THEN Summary(r.events)
                                            ELSE None]
       /\ UNCHANGED provider

\* analyzer.generate_parameter_sweep_table(thresholds)
GenerateParameterSweepTableCall ==
  \E thresholds \in ThresholdLists, bare \in EmptyFrames(data) :
    \E r \in {GenerateParameterSweepTable(provider, Analyzer, thresholds, bare)} :
       /\ symbol' = r.symbol
       /\ data' = r.data
       /\ dailyReturn' = r.dailyReturn
       /\ breakouts' = r.breakouts
       /\ ret' = [NoCall EXCEPT !.op = "generate_parameter_sweep_table",
                                !.thresholds = thresholds,
                                !.hold_days = SweepHoldDays,
                                !.future_days = SweepFutureDays,
                                !.error = r.error,
                                !.table = r.table,
                                !.replaced = Replaced(breakouts, r.breakouts)]
       /\ UNCHANGED provider

\* analyzer.plot_breakouts()
PlotBreakoutsCall ==
  /\ ret' = [NoCall EXCEPT !.op = "plot_breakouts", !.title = PlotTitle(breakouts)]
  /\ UNCHANGED <<provider, symbol, data, dailyReturn, breakouts>>

\* The calendars a series of n bars can have.  The years of the bars are
\* read by plot_win_rate_by_year only, so they are drawn when it is called;
\* a call that returns early reads none.
YearStarts(bk, d) ==
  IF bk = None \/ Completed(Get(bk)) = <<>> THEN {{}}
  ELSE SUBSET (2..Len(Get(d)))

\* analyzer.plot_win_rate_by_year()
PlotWinRateByYearCall ==
  \E starts \in YearStarts(breakouts, data) :
    \E years \in {IF data = None THEN <<>> ELSE YearsOf(Len(Get(data)), starts)} :
      /\ ret' = [NoCall EXCEPT !.op = "plot_win_rate_by_year",
                               !.years = years,
                               !.yearly = YearlyStats(breakouts, years)]
      /\ UNCHANGED <<provider, symbol, data, dailyReturn, breakouts>>

\* analyzer.export_results()
ExportResultsCall ==
  /\ ret' = [NoCall EXCEPT !.op = "export_results",
                           !.exported = ExportedRows(breakouts)]
  /\ UNCHANGED <<provider, symbol, data, dailyReturn, breakouts>>

Next ==
  \/ FetchDataCall
  \/ IdentifyBreakoutsCall
  \/ GenerateParameterSweepTableCall
  \/ PlotBreakoutsCall

Spec == Init /\ [][Next]_vars

\* The analyzer with its two other reporting calls, on a provider that
\* resolves the configured symbol.
InitReports == InitWith(NonEmptySeries, {{DefaultSymbol}})

NextReports ==
  \/ Next
  \/ PlotWinRateByYearCall
  \/ ExportResultsCall

SpecReports == InitReports /\ [][NextReports]_vars

\* The analyzer constructed for either symbol the drivers use, on a
\* provider that holds for every symbol a one-bar series of its own or none.
OneBarSeries == [1..1 -> Bars]
ConfiguredSymbols == {DefaultSymbol, alt_symbols[1]}

InitFetch ==
  /\ provider \in [Symbols -> OneBarSeries \cup {<<>>}]
  /\ symbol \in ConfiguredSymbols
  /\ data = None
  /\ dailyReturn = None
  /\ breakouts = None
  /\ ret = NoCall

SpecFetch == InitFetch /\ [][Next]_vars

\* ------------------------------------------------------------- properties
IdentifyReturned == ret.op = "identify_breakouts" /\ ret.error = ""
SweepReturned == ret.op = "generate_parameter_sweep_table" /\ ret.error = ""
NoUsableData == \A s \in Symbols : provider[s] = <<>>
Dates(events) == {events[k].breakout_date : k \in 1..Len(events)}

\* the bar at position i gained at least threshold_pct over its predecessor
GainedAtLeast(bars, i, threshold_pct) ==
  /\ i \in 2..Len(bars)
  /\ (bars[i].Close - bars[i-1].Close) * 100 >= threshold_pct * bars[i-1].Close

\* every bar of the hold window of i exists and closes at or above low[i]
WindowHolds(bars, i, hold_days) ==
  \A j \in 1..hold_days : i + j <= Len(bars) /\ bars[i + j].Close >= bars[i].Low

\* C1: identify_breakouts reports position i, exactly once and in ascending
\* date order, if and only if the bar's daily return is >= threshold_pct and
\* every position i+1..i+hold_days exists with a close >= low[i]; a candidate
\* with a missing or failing hold bar is not reported and stops nothing else.
C1_ReportedIffThresholdAndHold ==
  IdentifyReturned =>
    LET bars == Get(data)
        ev == ret.events
    IN /\ \A i \in 1..Len(bars) :
            i \in Dates(ev) <=> /\ GainedAtLeast(bars, i, ret.threshold_pct)
                                /\ WindowHolds(bars, i, ret.hold_days)
       /\ Dates(ev) \subseteq 1..Len(bars)
       /\ \A k \in 1..Len(ev), l \in 1..Len(ev) :
            k < l => ev[k].breakout_date < ev[l].breakout_date

\* a run with a hold window that reports one bar and rejects the last bar of
\* the series, which met the threshold but has no trailing bar
C1_Witness ==
  /\ IdentifyReturned
  /\ ret.hold_days >= 1
  /\ ret.events # <<>>
  /\ GainedAtLeast(Get(data), Len(Get(data)), ret.threshold_pct)
  /\ Len(Get(data)) \notin Dates(ret.events)

\* C2: every reported event has breakout_return >= threshold_pct (equality
\* included), and the first bar of the series is never reported.
C2_ReturnAtLeastThreshold ==
  IdentifyReturned =>
    \A k \in 1..Len(ret.events) :
      LET e == ret.events[k] IN
      /\ IsSome(e.breakout_return)
      /\ Get(e.breakout_return).num >= ret.threshold_pct * Get(e.breakout_return).den
      /\ e.breakout_date # 1

\* a reported event whose return equals the threshold exactly
C2_Witness ==
  /\ IdentifyReturned
  /\ \E k \in 1..Len(ret.events) :
       LET r == Get(ret.events[k].breakout_return) IN
       r.num = ret.threshold_pct * r.den

\* C3: a reported event at position i is completed if and only if position
\* i + future_days is within the series (its hold-window bars all exist);
\* otherwise it is pending; there is no other status.
C3_CompletedIffFutureBarExists ==
  IdentifyReturned =>
    \A k \in 1..Len(ret.events) :
      LET e == ret.events[k]
          i == e.breakout_date
          n == Len(Get(data))
      IN /\ e.status = "completed" <=> (i + ret.future_days <= n /\ i + ret.hold_days <= n)
         /\ i + ret.future_days > n => e.status = "pending"
         /\ e.status \in {"completed", "pending"}

\* a run with a hold window that reports a completed and a pending event
C3_Witness ==
  /\ IdentifyReturned
  /\ ret.hold_days >= 1
  /\ \E k \in 1..Len(ret.events) : ret.events[k].status = "completed"
  /\ \E k \in 1..Len(ret.events) : ret.events[k].status = "pending"

\* C4: a completed event at position i has future_price = close[i+future_days]
\* and breakout_price = low[i], and is a winner exactly when future_price >
\* breakout_price; equal prices are a loss.
C4_OutcomeOfCompleted ==
  IdentifyReturned =>
    \A k \in 1..Len(ret.events) :
      LET e == ret.events[k]
          bars == Get(data)
          i == e.breakout_date
      IN e.status = "completed" =>
           /\ e.future_price = Some(bars[i + ret.future_days].Close)
           /\ e.breakout_price = bars[i].Low
           /\ e.is_winner = Some(bars[i + ret.future_days].Close > bars[i].Low)
           /\ (Get(e.future_price) = e.breakout_price => e.is_winner = Some(FALSE))

\* a completed event whose future price equals its breakout price, next to a
\* completed event that won
C4_Witness ==
  /\ IdentifyReturned
  /\ \E k \in 1..Len(ret.events) :
       /\ ret.events[k].status = "completed"
       /\ ret.events[k].future_price = Some(ret.events[k].breakout_price)
  /\ \E k \in 1..Len(ret.events) : ret.events[k].is_winner = Some(TRUE)

\* C5: future_price, future_return and is_winner are all set on a completed
\* event and all unset on a pending one; never only some of them.
C5_OutcomeFieldsAllOrNone ==
  IdentifyReturned =>
    \A k \in 1..Len(ret.events) :
      LET e == ret.events[k] IN
      /\ e.status = "completed" =>
           IsSome(e.future_price) /\ IsSome(e.future_return) /\ IsSome(e.is_winner)
      /\ e.status = "pending" =>
           e.future_price = None /\ e.future_return = None /\ e.is_winner = None

\* a returned collection whose last event is pending and whose first event is
\* a completed loss with a zero future return
C5_Witness ==
  /\ IdentifyReturned
  /\ Len(ret.events) >= 2
  /\ ret.events[Len(ret.events)].status = "pending"
  /\ ret.events[1].status = "completed"
  /\ Get(ret.events[1].future_return).num = 0

\* the number of completed events a detection run has to report
NumCompleted(bars, threshold_pct, hold_days, future_days) ==
  Cardinality({i \in 1..Len(bars) : /\ GainedAtLeast(bars, i, threshold_pct)
                                    /\ WindowHolds(bars, i, hold_days)
                                    /\ i + future_days <= Len(bars)})

\* C6: when the provider supplies no usable data, every call of
\* identify_breakouts or generate_parameter_sweep_table ends in the no-data
\* error, also after an earlier fetch_data call has failed.
C6_NoDataIsFatal ==
  (NoUsableData /\ ret.op \in {"identify_breakouts", "generate_parameter_sweep_table"})
    => ret.error = "ValueError"

\* C7: the count and the win-rate denominator of every reported aggregate
\* (summary of identify_breakouts, chart title, sweep row) are the number of
\* completed events.
C7_AggregatesCountCompletedOnly ==
  /\ (IdentifyReturned /\ IsSome(ret.summary)) =>
       /\ Get(ret.summary).completed = Len(Completed(ret.events))
       /\ Get(ret.summary).win_rate.den = Len(Completed(ret.events))
  /\ (ret.op = "plot_breakouts" /\ IsSome(ret.title)) =>
       /\ Get(ret.title).completed_count = Len(Completed(Get(breakouts)))
       /\ Get(ret.title).completed_count > 0 =>
            Get(ret.title).win_rate.den = Get(ret.title).completed_count
  /\ SweepReturned =>
       \A k \in 1..Len(ret.table) :
         LET n == NumCompleted(Get(data), ret.thresholds[k], SweepHoldDays,
                               SweepFutureDays)
         IN /\ ret.table[k].total_breakouts = n
            /\ n > 0 => ret.table[k].win_rate.den = n

\* C8: with no completed event (none reported, or all pending) the win rate
\* and the mean future return are reported as 0, in the chart title and in
\* every sweep row.
C8_EmptyCompletedGivesZero ==
  /\ (/\ ret.op = "plot_breakouts"
      /\ IsSome(ret.title)
      /\ Completed(Get(breakouts)) = <<>>) => Get(ret.title).win_rate.num = 0
  /\ SweepReturned =>
       \A k \in 1..Len(ret.table) :
         NumCompleted(Get(data), ret.thresholds[k], SweepHoldDays, SweepFutureDays) = 0
           => /\ ret.table[k].win_rate.num = 0
              /\ IsSome(ret.table[k].avg_return)
              /\ Get(ret.table[k].avg_return).num = 0

\* a detection run on a newly constructed analyzer that holds the same data
FreshRun(threshold_pct, hold_days, future_days) ==
  IdentifyBreakouts(provider,
                    [symbol |-> symbol, data |-> data, dailyReturn |-> None,
                     breakouts |-> None],
                    threshold_pct, hold_days, future_days, FALSE)

\* C9: the sweep table has one row per threshold, in input order, and each
\* row is the summary of a detection run made for that threshold alone with
\* the sweep's hold_days and future_days, whatever else the list holds.
C9_SweepRowIsSingleRun ==
  SweepReturned =>
    /\ Len(ret.table) = Len(ret.thresholds)
    /\ \A k \in 1..Len(ret.table) :
         /\ ret.table[k].threshold_pct = ret.thresholds[k]
         /\ ret.table[k] =
              SweepRow(ret.thresholds[k],
                       FreshRun(ret.thresholds[k], SweepHoldDays, SweepFutureDays).events)

\* a sweep over two thresholds, run on an analyzer that held another result
\* set, whose first row counts a breakout and whose second row counts none
C9_Witness ==
  /\ SweepReturned
  /\ Len(ret.table) = 2
  /\ ret.table[1].total_breakouts = 1
  /\ ret.table[2].total_breakouts = 0
  /\ ret.replaced

\* C10: a detection run returns the event collection that the same run
\* returns on an analyzer without any earlier run, so repeating a run, with
\* any other runs or sweeps in between, returns an identical collection: the
\* stored result set and Daily_Return column of earlier runs have no effect.
C10_RunIgnoresEarlierRuns ==
  IdentifyReturned =>
    ret.events = FreshRun(ret.threshold_pct, ret.hold_days, ret.future_days).events

\* a run that returned events on an analyzer holding the different result
\* set of an earlier run
C10_Witness ==
  /\ IdentifyReturned
  /\ ret.replaced
  /\ ret.events # <<>>
  /\ dailyReturn # None

\* a bar of the series is due to be reported for the given parameters
SomeBarQualifies(bars, threshold_pct, hold_days) ==
  \E i \in 1..Len(bars) : /\ GainedAtLeast(bars, i, threshold_pct)
                          /\ WindowHolds(bars, i, hold_days)

HasSeries == data # None /\ Get(data) # <<>>

\* C11: on a fetched series, when no bar meets the threshold or no candidate
\* survives the hold check, identify_breakouts returns (and stores) an empty
\* collection without an error, and the sweep still returns a row for that
\* threshold with zero breakouts, zero wins and win rate 0.
C11_EmptyResultIsNormal ==
  /\ (/\ ret.op = "identify_breakouts"
      /\ HasSeries
      /\ ~SomeBarQualifies(Get(data), ret.threshold_pct, ret.hold_days))
       => ret.error = "" /\ ret.events = <<>> /\ breakouts = Some(<<>>)
  /\ (ret.op = "generate_parameter_sweep_table" /\ HasSeries) =>
       /\ ret.error = ""
       /\ Len(ret.table) = Len(ret.thresholds)
       /\ \A k \in 1..Len(ret.table) :
            ~SomeBarQualifies(Get(data), ret.thresholds[k], SweepHoldDays) =>
              /\ ret.table[k].threshold_pct = ret.thresholds[k]
              /\ ret.table[k].total_breakouts = 0
              /\ ret.table[k].wins = 0
              /\ ret.table[k].win_rate = Zero

\* a sweep whose last threshold was met by a bar that did not survive the
\* hold check: its row is the zero row and the stored collection is empty
C11_Witness ==
  /\ ret.op = "generate_parameter_sweep_table"
  /\ HasSeries
  /\ ret.thresholds # <<>>
  /\ \E i \in 1..Len(Get(data)) :
       GainedAtLeast(Get(data), i, ret.thresholds[Len(ret.thresholds)])
  /\ ret.table[Len(ret.table)].total_breakouts = 0
  /\ breakouts = Some(<<>>)

\* C13: with hold_days = 0 every bar whose daily return is >= threshold_pct
\* is reported, the last bar of the series included and whatever the later
\* closes are.
C13_NoHoldCheckWithoutHoldDays ==
  (IdentifyReturned /\ ret.hold_days = 0) =>
    /\ Dates(ret.events) =
         {i \in 1..Len(Get(data)) : GainedAtLeast(Get(data), i, ret.threshold_pct)}
    /\ \A k \in 1..Len(ret.events) : ret.events[k].status \in {"pending", "completed"}

\* a run with hold_days = 0 that reports the last bar and a bar whose next
\* close is below its low
C13_Witness ==
  /\ IdentifyReturned
  /\ ret.hold_days = 0
  /\ Len(Get(data)) \in Dates(ret.events)
  /\ \E k \in 1..Len(ret.events) :
       LET i == ret.events[k].breakout_date IN
       /\ i < Len(Get(data))
       /\ Get(data)[i + 1].Close < Get(data)[i].Low

\* C16: in a returned collection no completed event follows a pending one,
\* and with future_days <= hold_days no reported event is pending.
C16_PendingIsSuffix ==
  IdentifyReturned =>
    /\ \A k \in 1..Len(ret.events), l \in 1..Len(ret.events) :
         (k < l /\ ret.events[k].status = "pending")
           => ret.events[l].status = "pending"
    /\ ret.future_days <= ret.hold_days =>
         \A k \in 1..Len(ret.events) : ret.events[k].status # "pending"

\* a collection with a completed event before two pending ones
C16_Witness ==
  /\ IdentifyReturned
  /\ Len(ret.events) = 3
  /\ ret.events[1].status = "completed"
  /\ ret.events[2].status = "pending"
  /\ ret.events[3].status = "pending"

StoredEvents == IF breakouts = None THEN <<>> ELSE Get(breakouts)
YearlyRows == IF IsSome(ret.yearly) THEN Get(ret.yearly) ELSE <<>>
ReportedYears == {YearlyRows[k].year : k \in 1..Len(YearlyRows)}
CalendarYears == {ret.years[i] : i \in 1..Len(ret.years)}
Abs(x) == IF x < 0 THEN -x ELSE x

\* the stored completed events whose breakout_date lies in year y
CompletedIn(y) ==
  {k \in 1..Len(StoredEvents) :
     /\ StoredEvents[k].status = "completed"
     /\ ret.years[StoredEvents[k].breakout_date] = y}
WinsIn(y) == {k \in CompletedIn(y) : StoredEvents[k].is_winner = Some(TRUE)}

\* what C12 says of the grouping: one row per calendar year that has at
\* least 2 completed events, in year order, with the count of the completed
\* events and of the winners of that year; pending events count nowhere
YearlyGrouping ==
  /\ \A k \in 1..Len(YearlyRows), l \in 1..Len(YearlyRows) :
       k < l => YearlyRows[k].year < YearlyRows[l].year
  /\ ReportedYears \subseteq CalendarYears
  /\ \A y \in CalendarYears :
       y \in ReportedYears <=> Cardinality(CompletedIn(y)) >= MinYearlyBreakouts
  /\ \A k \in 1..Len(YearlyRows) :
       /\ YearlyRows[k].total_breakouts = Cardinality(CompletedIn(YearlyRows[k].year))
       /\ YearlyRows[k].wins = Cardinality(WinsIn(YearlyRows[k].year))

StoredSetIsLastRun ==
  /\ IdentifyReturned => breakouts = Some(ret.events)
  /\ (SweepReturned /\ ret.thresholds # <<>>) =>
       breakouts = Some(FreshRun(ret.thresholds[Len(ret.thresholds)],
                                 SweepHoldDays, SweepFutureDays).events)

\* a call that ran no detection leaves the stored set alone, and the
\* reporting calls read it
OnlyRunsStore ==
  /\ (\/ ret'.op \in {"fetch_data", "plot_breakouts", "plot_win_rate_by_year",
                      "export_results"}
      \/ ret'.error # ""
      \/ (ret'.op = "generate_parameter_sweep_table" /\ ret'.thresholds = <<>>))
       => breakouts' = breakouts
  /\ ret'.op = "export_results" =>
       /\ IsSome(ret'.exported) <=> StoredEvents' # <<>>
       /\ IsSome(ret'.exported) =>
            Dates(Get(ret'.exported)) = Dates(StoredEvents')
  /\ ret'.op = "plot_breakouts" =>
       /\ IsSome(ret'.title) <=> StoredEvents' # <<>>
       /\ IsSome(ret'.title) =>
            Get(ret'.title).completed_count + Get(ret'.title).pending_count
              = Len(StoredEvents')

\* C15: the stored breakout set is the result of the most recent detection
\* run, and each sweep iteration is such a run: after a sweep it is the
\* result for the last threshold with hold_days = 2 and future_days = 126,
\* not the set of the caller's earlier run, and the plot and export calls
\* that follow read that set.
C15_StoredSetIsLastRun == [](StoredSetIsLastRun) /\ [][OnlyRunsStore]_vars

\* a sweep that replaced the stored set of an earlier run by the empty
\* result of its last threshold, its first threshold having found a breakout
C15_Witness ==
  /\ SweepReturned
  /\ ret.replaced
  /\ Len(ret.table) = 2
  /\ ret.table[1].total_breakouts = 1
  /\ breakouts = Some(<<>>)

\* the symbols fetch_data may ask for, in order, and those holding data
QueryOrder == <<ret.configured>> \o alt_symbols
Hits == {k \in 1..Len(QueryOrder) : provider[QueryOrder[k]] # <<>>}
FirstHit == CHOOSE k \in Hits : \A l \in Hits : k <= l

\* C14: fetch_data asks for the configured symbol, then 'SLV', then
\* 'XAGUSD=X', and stops at the first that returns data; it raises the
\* no-data error iff none of the three returns data; when it returns, the
\* stored series is the non-empty series of the symbol that self.symbol
\* names, which is the configured symbol when that one had data.
C14_FirstSymbolWithData ==
  ret.op = "fetch_data" =>
    /\ ret.error \in {"", "ValueError"}
    /\ ret.error = "ValueError" <=> Hits = {}
    /\ Hits = {} => ret.queried = QueryOrder
    /\ Hits # {} =>
         /\ ret.queried = SubSeq(QueryOrder, 1, FirstHit)
         /\ symbol = QueryOrder[FirstHit]
         /\ data = Some(provider[symbol])
         /\ Get(data) # <<>>
         /\ FirstHit = 1 => symbol = ret.configured

\* a fetch that found nothing for 'SI=F', took the series of 'SLV' and did
\* not ask for 'XAGUSD=X', which holds another series
C14_Witness ==
  /\ ret.op = "fetch_data"
  /\ ret.error = ""
  /\ ret.configured = DefaultSymbol
  /\ symbol = alt_symbols[1]
  /\ ret.queried = <<DefaultSymbol, alt_symbols[1]>>
  /\ provider[alt_symbols[2]] # <<>>
  /\ provider[alt_symbols[2]] # provider[alt_symbols[1]]

====
